---- MODULE Spec2Model ----
(***************************************************************************)
(* Model of news_fetcher.py: one process run is the pipeline               *)
(*   load_existing_articles -> fetch_from_gnews -> fetch_from_newsdata     *)
(*   -> process_and_merge_articles -> save_to_json                         *)
(* over the blob news.json, which persists from one run to the next.       *)
(*                                                                         *)
(* Python values: a dict is a function whose DOMAIN is the set of keys it  *)
(* has, a list is a sequence, a str is a string, and None is the value     *)
(* None below (no string of the model equals it).                          *)
(***************************************************************************)
EXTENDS Integers, Sequences, FiniteSets, TLC

VARIABLES
    news_json,          \* the blob OUTPUT_FILE
    gnews_feed,         \* what GNews currently serves (environment)
    newsdata_feed,      \* what NewsData.io currently serves (environment)
    pc,                 \* position of the running process in __main__
    run,                \* number of the process run, also the clock of utcnow()
    existing_articles,  \* __main__'s existing_articles (mutated in place by the merge)
    gnews_articles,     \* __main__'s gnews_articles
    newsdata_articles,  \* __main__'s newsdata_articles
    final_articles,     \* __main__'s final_articles
    prev                \* history: what the previous run fetched and merged

vars == <<news_json, gnews_feed, newsdata_feed, pc, run, existing_articles,
          gnews_articles, newsdata_articles, final_articles, prev>>

-----------------------------------------------------------------------------
(* Bounds of the model *)

MaxFeed == 2   \* raw records served by both providers together
MaxRuns == 2   \* process runs in one behaviour

-----------------------------------------------------------------------------
(* Configuration, lines 7-25 *)

MAX_ARTICLES_IN_ARCHIVE == 300

GNEWS_TOPICS ==
    <<"Artificial Intelligence", "Machine Learning", "Cybersecurity", "Data Science">>

-----------------------------------------------------------------------------
(* Python primitives *)

None == "None"

\* dict.get(key)
Get(d, key) == IF key \in DOMAIN d THEN d[key] ELSE None

\* dict.get(key, default)
GetDefault(d, key, default) == IF key \in DOMAIN d THEN d[key] ELSE default

\* truth value of an optional str: None and "" are false
Truthy(v) == v # None /\ v # ""

\* the characters of the timestamp strings of the model, as digit sequences
Chars(s) ==
    CASE s = ""   -> <<>>
      [] s = "1"  -> <<1>>
      [] s = "10" -> <<1, 0>>
      [] s = "2"  -> <<2>>

\* str.__lt__ on character sequences: lexicographic, a proper prefix is smaller
RECURSIVE LexLess(_, _)
LexLess(a, b) ==
    IF b = <<>> THEN FALSE
    ELSE IF a = <<>> THEN TRUE
    ELSE IF Head(a) # Head(b) THEN Head(a) < Head(b)
    ELSE LexLess(Tail(a), Tail(b))

StrLess(s, t) == LexLess(Chars(s), Chars(t))

RECURSIVE Concat(_)
Concat(seqs) == IF seqs = <<>> THEN <<>> ELSE Head(seqs) \o Concat(Tail(seqs))

-----------------------------------------------------------------------------
(* load_existing_articles, lines 28-36 *)

\* json.load fails with FileNotFoundError / JSONDecodeError: caught, line 34
LoadCaught(blob) == blob.kind \in {"absent", "invalid"}

\* the blob parses to a JSON value that is not an object: data.get raises
\* AttributeError, which line 34 does not catch
LoadRaises(blob) == blob.kind = "array"

LoadResult(blob) ==
    IF LoadCaught(blob) THEN <<>>
    ELSE IF blob.kind = "object" THEN <<>>     \* no 'articles' key: the default []
    ELSE blob.articles

-----------------------------------------------------------------------------
(* fetch_from_gnews, lines 38-60, and fetch_from_newsdata, lines 62-80 *)

\* the articles GNews returns for the i-th topic: the feed's records are
\* spread over the topics round-robin
TopicArticles(feed, i) ==
    LET idx == {j \in 1..Len(feed) : ((j - 1) % Len(GNEWS_TOPICS)) + 1 = i}
        RECURSIVE Pick(_)
        Pick(j) == IF j > Len(feed) THEN <<>>
                   ELSE IF j \in idx THEN <<feed[j]>> \o Pick(j + 1)
                   ELSE Pick(j + 1)
    IN Pick(1)

\* all_gnews_articles when the requests of the topics in `failed` raise
GNewsResult(feed, failed) ==
    Concat([i \in 1..Len(GNEWS_TOPICS) |->
                IF i \in failed THEN <<>> ELSE TopicArticles(feed, i)])

-----------------------------------------------------------------------------
(* process_and_merge_articles, lines 82-124 *)

\* line 86 with the set left empty
ExistingUrls_Empty(articles) == {}

\* line 86
ExistingUrls(articles) == {articles[i].url : i \in 1..Len(articles)}

\* line 91 without the test `url not in existing_urls`
GNewsAdmits_NoDedup(article, existing_urls) ==
    /\ Truthy(Get(article, "url"))
    /\ Truthy(Get(article, "image"))

\* line 91
GNewsAdmits(article, existing_urls) ==
    /\ Truthy(Get(article, "url"))
    /\ Get(article, "url") \notin existing_urls
    /\ Truthy(Get(article, "image"))

\* lines 92-98
ProcessGNews(article) ==
    [source      |-> GetDefault(article, "source", [name |-> "GNews"]),
     title       |-> Get(article, "title"),
     url         |-> Get(article, "url"),
     urlToImage  |-> Get(article, "image"),
     publishedAt |-> Get(article, "publishedAt")]

\* line 105 without the test of image_url
NewsDataAdmits_NoImage(article, existing_urls) ==
    /\ Truthy(Get(article, "link"))
    /\ Get(article, "link") \notin existing_urls

\* line 105
NewsDataAdmits(article, existing_urls) ==
    /\ Truthy(Get(article, "link"))
    /\ Get(article, "link") \notin existing_urls
    /\ Truthy(Get(article, "image_url"))

\* lines 106-112
ProcessNewsData(article) ==
    [source      |-> [name |-> GetDefault(article, "source_id", "NewsData.io")],
     title       |-> Get(article, "title"),
     url         |-> Get(article, "link"),
     urlToImage  |-> Get(article, "image_url"),
     publishedAt |-> Get(article, "pubDate")]

\* the loop of lines 89-100 without line 100, existing_urls.add(url)
RECURSIVE GNewsLoop_NoAdd(_, _, _, _)
GNewsLoop_NoAdd(articles, existing_urls, batch, i) ==
    IF i > Len(batch) THEN [articles |-> articles, existing_urls |-> existing_urls]
    ELSE IF GNewsAdmits(batch[i], existing_urls)
         THEN GNewsLoop_NoAdd(Append(articles, ProcessGNews(batch[i])),
                              existing_urls, batch, i + 1)
         ELSE GNewsLoop_NoAdd(articles, existing_urls, batch, i + 1)

\* the loop of lines 89-100 over batch[i..]
RECURSIVE GNewsLoop(_, _, _, _)
GNewsLoop(articles, existing_urls, batch, i) ==
    IF i > Len(batch) THEN [articles |-> articles, existing_urls |-> existing_urls]
    ELSE IF GNewsAdmits(batch[i], existing_urls)
         THEN GNewsLoop(Append(articles, ProcessGNews(batch[i])),
                        existing_urls \cup {Get(batch[i], "url")}, batch, i + 1)
         ELSE GNewsLoop(articles, existing_urls, batch, i + 1)

\* the loop of lines 103-114 over batch[i..]
RECURSIVE NewsDataLoop(_, _, _, _)
NewsDataLoop(articles, existing_urls, batch, i) ==
    IF i > Len(batch) THEN [articles |-> articles, existing_urls |-> existing_urls]
    ELSE IF NewsDataAdmits(batch[i], existing_urls)
         THEN NewsDataLoop(Append(articles, ProcessNewsData(batch[i])),
                           existing_urls \cup {Get(batch[i], "link")}, batch, i + 1)
         ELSE NewsDataLoop(articles, existing_urls, batch, i + 1)

\* existing_articles as it is when line 116 is reached
Appended(existing, gnews, newsdata) ==
    LET g == GNewsLoop(existing, ExistingUrls(existing), gnews, 1)
    IN NewsDataLoop(g.articles, g.existing_urls, newsdata, 1).articles

\* line 117: list.sort compares the keys of a list of two or more elements
\* with <, which raises TypeError when one of them is None
SortRaises(articles) ==
    /\ Len(articles) >= 2
    /\ \E i \in 1..Len(articles) : articles[i].publishedAt = None

\* the distinct keys, greatest first
RECURSIVE Descending(_)
Descending(keys) ==
    IF keys = {} THEN <<>>
    ELSE LET m == CHOOSE k \in keys : \A j \in keys \ {k} : ~StrLess(k, j)
         IN <<m>> \o Descending(keys \ {m})

\* line 117 without reverse=True
SortNewestFirst_OldestFirst(articles) ==
    LET keys == Descending({articles[i].publishedAt : i \in 1..Len(articles)})
    IN Concat([n \in 1..Len(keys) |->
                  SelectSeq(articles,
                            LAMBDA a : a.publishedAt = keys[Len(keys) + 1 - n])])

\* line 117: list.sort(key=publishedAt, reverse=True) is stable: the records
\* of the greatest key in their original order, then those of the next key, ...
SortNewestFirst(articles) ==
    LET keys == Descending({articles[i].publishedAt : i \in 1..Len(articles)})
    IN Concat([n \in 1..Len(keys) |->
                  SelectSeq(articles, LAMBDA a : a.publishedAt = keys[n])])

\* lines 120-124 without the slice
Trim_NoSlice(articles) == articles

\* lines 120-124 with the slice taken from the end of the list
Trim_KeepOldest(articles) ==
    IF Len(articles) > MAX_ARTICLES_IN_ARCHIVE
    THEN SubSeq(articles, Len(articles) - MAX_ARTICLES_IN_ARCHIVE + 1, Len(articles))
    ELSE articles

\* lines 120-124
Trim(articles) ==
    IF Len(articles) > MAX_ARTICLES_IN_ARCHIVE
    THEN SubSeq(articles, 1, MAX_ARTICLES_IN_ARCHIVE)
    ELSE articles

-----------------------------------------------------------------------------
(* The inputs: blobs and provider feeds *)

Restrict(d, keys) == [k \in keys |-> d[k]]

Article(url, publishedAt, title) ==
    [source |-> [name |-> "Wired"], title |-> title, url |-> url,
     urlToImage |-> "img", publishedAt |-> publishedAt]

\* n archived records of distinct urls and one timestamp
Fill(n) == [i \in 1..n |-> Article("f" \o ToString(i), "10", "t")]

Archives ==
    { <<>>,
      <<Article("u1", "1", "old")>>,
      <<Article("u1", None, "old")>>,
      <<Article("u2", "2", "a"), Article("u1", "1", "old")>>,
      <<Article("u1", "1", "old"), Article("u2", "2", "a")>>,
      <<Article("u1", "2", "a"), Article("u1", "1", "old")>>,
      Fill(MAX_ARTICLES_IN_ARCHIVE - 2),
      Fill(MAX_ARTICLES_IN_ARCHIVE - 1) \o <<Article("u1", "1", "old")>>,
      Fill(MAX_ARTICLES_IN_ARCHIVE) \o <<Article("u1", "1", "old")>> }

Blob(kind, articles) == [kind |-> kind, lastUpdatedAt |-> 0, articles |-> articles]

Blobs ==
    {Blob(k, <<>>) : k \in {"absent", "invalid", "array", "object"}}
      \cup {Blob("archive", a) : a \in Archives}

GNewsFull(url, publishedAt, title) ==
    [source |-> [name |-> "BBC"], title |-> title, description |-> "d",
     url |-> url, image |-> "img", publishedAt |-> publishedAt]

GNewsRaw ==
    { GNewsFull("u1", "2", "g1"),
      GNewsFull("u2", "10", "g2"),
      GNewsFull("u2", "2", "g3"),
      Restrict(GNewsFull("u2", "2", "g4"),
               {"source", "title", "description", "url", "publishedAt"}),
      Restrict(GNewsFull("u3", "2", "g5"), {"url", "image"}),
      GNewsFull("", "2", "g6") }

NewsDataFull(link, pubDate, title) ==
    [source_id |-> "cnn", title |-> title, description |-> "d",
     link |-> link, image_url |-> "img", pubDate |-> pubDate]

NewsDataRaw ==
    { NewsDataFull("u1", "10", "n1"),
      NewsDataFull("u2", "2", "n2"),
      NewsDataFull("u4", "1", "n3"),
      [NewsDataFull("u4", "2", "n4") EXCEPT !.image_url = ""],
      Restrict(NewsDataFull("u3", "2", "n5"), {"link", "image_url"}),
      Restrict(NewsDataFull("u4", "2", "n6"),
               {"source_id", "title", "description", "image_url", "pubDate"}) }

SeqsUpTo(S, n) == UNION {[1..m -> S] : m \in 0..n}

Feeds ==
    {f \in SeqsUpTo(GNewsRaw, MaxFeed) \X SeqsUpTo(NewsDataRaw, MaxFeed) :
        Len(f[1]) + Len(f[2]) <= MaxFeed}

-----------------------------------------------------------------------------
(* The process: __main__, lines 137-155 *)

NoPrev == [saved |-> FALSE, gnews |-> <<>>, newsdata |-> <<>>, appended |-> 0]

Init ==
    /\ news_json \in Blobs
    /\ \E f \in Feeds : gnews_feed = f[1] /\ newsdata_feed = f[2]
    /\ pc = "load"
    /\ run = 1
    /\ existing_articles = <<>>
    /\ gnews_articles = <<>>
    /\ newsdata_articles = <<>>
    /\ final_articles = <<>>
    /\ prev = NoPrev

\* line 144
LoadExistingArticles ==
    /\ pc = "load"
    /\ IF LoadRaises(news_json)
       THEN pc' = "load_raised" /\ UNCHANGED existing_articles
       ELSE pc' = "fetch_gnews" /\ existing_articles' = LoadResult(news_json)
    /\ UNCHANGED <<news_json, gnews_feed, newsdata_feed, run, gnews_articles,
                   newsdata_articles, final_articles, prev>>

\* line 148
FetchFromGNews ==
    /\ pc = "fetch_gnews"
    /\ \E failed \in SUBSET (1..Len(GNEWS_TOPICS)) :
          gnews_articles' = GNewsResult(gnews_feed, failed)
    /\ pc' = "fetch_newsdata"
    /\ UNCHANGED <<news_json, gnews_feed, newsdata_feed, run, existing_articles,
                   newsdata_articles, final_articles, prev>>

\* line 149
FetchFromNewsData ==
    /\ pc = "fetch_newsdata"
    /\ \E failed \in BOOLEAN :
          newsdata_articles' = IF failed THEN <<>> ELSE newsdata_feed
    /\ pc' = "merge"
    /\ UNCHANGED <<news_json, gnews_feed, newsdata_feed, run, existing_articles,
                   gnews_articles, final_articles, prev>>

\* line 152
ProcessAndMergeArticles ==
    /\ pc = "merge"
    /\ LET appended == Appended(existing_articles, gnews_articles, newsdata_articles)
       IN IF SortRaises(appended)
          THEN /\ pc' = "merge_raised"
               /\ existing_articles' = appended
               /\ UNCHANGED final_articles
          ELSE /\ pc' = "save"
               /\ existing_articles' = SortNewestFirst(appended)
               /\ final_articles' = Trim(SortNewestFirst(appended))
    /\ UNCHANGED <<news_json, gnews_feed, newsdata_feed, run, gnews_articles,
                   newsdata_articles, prev>>

\* line 155
SaveToJson ==
    /\ pc = "save"
    /\ news_json' = [kind |-> "archive", lastUpdatedAt |-> run,
                     articles |-> final_articles]
    /\ pc' = "done"
    /\ UNCHANGED <<gnews_feed, newsdata_feed, run, existing_articles,
                   gnews_articles, newsdata_articles, final_articles, prev>>

\* the script is started again
Start ==
    /\ pc \in {"done", "load_raised", "merge_raised"}
    /\ run < MaxRuns
    /\ run' = run + 1
    /\ pc' = "load"
    /\ prev' = [saved |-> pc = "done", gnews |-> gnews_articles,
                newsdata |-> newsdata_articles, appended |-> Len(existing_articles)]
    /\ existing_articles' = <<>>
    /\ gnews_articles' = <<>>
    /\ newsdata_articles' = <<>>
    /\ final_articles' = <<>>
    /\ UNCHANGED <<news_json, gnews_feed, newsdata_feed>>

\* a step of the running process
Step ==
    \/ LoadExistingArticles
    \/ FetchFromGNews
    \/ FetchFromNewsData
    \/ ProcessAndMergeArticles
    \/ SaveToJson

Next ==
    \/ Step
    \/ Start

Spec == Init /\ [][Next]_vars

\* a started process runs until it exits; nothing obliges anyone to start it again
FairSpec == Spec /\ WF_vars(Step)

-----------------------------------------------------------------------------
(* What a run was given, and what the documented reconciliation yields *)

Range(s) == {s[i] : i \in 1..Len(s)}

\* the archive the running process loaded; news_json is untouched until the save
Loaded == LoadResult(news_json)

\* process_and_merge_articles has returned and nothing is written yet
Returned == pc = "save"

NoDuplicateUrl(articles) ==
    Cardinality({articles[i].url : i \in 1..Len(articles)}) = Len(articles)

\* the raw records that carry a url and an image, normalised, in processing
\* order: the GNews batch, then the NewsData batch
Candidates ==
    LET g == SelectSeq(gnews_articles,
                 LAMBDA a : Truthy(Get(a, "url")) /\ Truthy(Get(a, "image")))
        n == SelectSeq(newsdata_articles,
                 LAMBDA a : Truthy(Get(a, "link")) /\ Truthy(Get(a, "image_url")))
    IN [i \in 1..Len(g) |-> ProcessGNews(g[i])]
         \o [i \in 1..Len(n) |-> ProcessNewsData(n[i])]

\* the candidates whose url is neither in the loaded archive nor carried by an
\* earlier candidate, in processing order
FirstSeen ==
    LET c == Candidates
        RECURSIVE From(_)
        From(k) ==
            IF k > Len(c) THEN <<>>
            ELSE IF /\ c[k].url \notin {Loaded[i].url : i \in 1..Len(Loaded)}
                    /\ \A j \in 1..(k - 1) : c[j].url # c[k].url
                 THEN <<c[k]>> \o From(k + 1)
                 ELSE From(k + 1)
    IN From(1)

NotOlder(a, b) == ~StrLess(a.publishedAt, b.publishedAt)

NewestFirst(articles) ==
    \A i \in 1..(Len(articles) - 1) : NotOlder(articles[i], articles[i + 1])

-----------------------------------------------------------------------------
(* C1: the list returned by process_and_merge_articles, which save_to_json   *)
(* writes, has no two records of equal url, whatever archive was loaded.     *)
(* Violated: the records of the loaded archive are never compared with each  *)
(* other, so a url the archive holds twice is returned twice.                *)
C1_UniqueWhateverLoaded ==
    pc \in {"save", "done"} => NoDuplicateUrl(final_articles)

(* C1 as amended: if the loaded archive has no two records of equal url, the *)
(* returned list has none either, and it is the list save_to_json writes.    *)
C1_UniqueIfLoadedUnique ==
    /\ (Returned /\ NoDuplicateUrl(Loaded)) => NoDuplicateUrl(final_articles)
    /\ pc = "done" => news_json.articles = final_articles

\* a fetched record that carries an image repeats a url of the loaded archive
C1_Witness ==
    /\ Returned
    /\ NoDuplicateUrl(Loaded)
    /\ \E i \in 1..Len(gnews_articles) :
          /\ Truthy(Get(gnews_articles[i], "image"))
          /\ Get(gnews_articles[i], "url") \in {Loaded[k].url : k \in 1..Len(Loaded)}
    /\ \E i \in 1..Len(final_articles) : final_articles[i] \notin Range(Loaded)

(* C2: the returned list, and the list written to news.json, has at most     *)
(* MAX_ARTICLES_IN_ARCHIVE records, whatever the sizes of the loaded archive *)
(* and of the batches.                                                       *)
C2_Bound ==
    /\ pc \in {"save", "done"} => Len(final_articles) <= MAX_ARTICLES_IN_ARCHIVE
    /\ pc = "done" => Len(news_json.articles) <= MAX_ARTICLES_IN_ARCHIVE

\* the merged list was longer than the maximum and has been cut
C2_Witness ==
    /\ Returned
    /\ Len(existing_articles) > MAX_ARTICLES_IN_ARCHIVE
    /\ Len(final_articles) = MAX_ARTICLES_IN_ARCHIVE
    /\ Len(existing_articles) > Len(Loaded)

(* C3: in the returned list every record's publishedAt is lexicographically  *)
(* greater than or equal to its successor's, for loaded and new records.     *)
C3_SortOrder ==
    pc \in {"save", "done"} => NewestFirst(final_articles)

\* loaded and new records together, which the sort had to reorder
C3_Witness ==
    /\ Returned
    /\ Loaded # <<>>
    /\ Len(existing_articles) > Len(Loaded)
    /\ Appended(Loaded, gnews_articles, newsdata_articles) # existing_articles
    /\ ~NewestFirst(Loaded)

(* C4: a record is appended only for a raw record with a non-empty url (url  *)
(* / link) and a non-empty image (image / image_url): every returned record  *)
(* that is not of the loaded archive carries the url and the image of such a *)
(* raw record, so a raw record without an image is never in the output.      *)
C4_AdmissionFilter ==
    Returned =>
        \A r \in Range(existing_articles) \cup Range(final_articles) :
            \/ r \in Range(Loaded)
            \/ /\ Truthy(r.url) /\ Truthy(r.urlToImage)
               /\ \/ \E i \in 1..Len(gnews_articles) :
                        /\ Get(gnews_articles[i], "url") = r.url
                        /\ Get(gnews_articles[i], "image") = r.urlToImage
                  \/ \E i \in 1..Len(newsdata_articles) :
                        /\ Get(newsdata_articles[i], "link") = r.url
                        /\ Get(newsdata_articles[i], "image_url") = r.urlToImage

\* a raw record with a url no other record has and no image, left out
C4_Witness ==
    /\ Returned
    /\ \E i \in 1..Len(gnews_articles) :
          /\ Truthy(Get(gnews_articles[i], "url"))
          /\ ~Truthy(Get(gnews_articles[i], "image"))
          /\ \A r \in Range(final_articles) : r.url # Get(gnews_articles[i], "url")
    /\ \E r \in Range(final_articles) : r \notin Range(Loaded)

(* C5: a second run that loads the first run's output and fetches the same   *)
(* two batches admits no record and returns the first run's list, element    *)
(* for element.                                                              *)
(* Violated: a record the first run trimmed away no longer blocks its url,   *)
(* so a raw record the first run skipped as a duplicate is admitted.         *)
SameBatchesAgain ==
    /\ run >= 2
    /\ Returned
    /\ prev.saved
    /\ gnews_articles = prev.gnews
    /\ newsdata_articles = prev.newsdata

C5_Idempotent ==
    SameBatchesAgain =>
        /\ Len(existing_articles) = Len(Loaded)
        /\ final_articles = Loaded

(* C5 as amended: if the first run's merged list was not longer than         *)
(* MAX_ARTICLES_IN_ARCHIVE, so that nothing was trimmed, the second run with *)
(* the same batches admits no record and returns the first run's list.       *)
C5_IdempotentIfNotTrimmed ==
    (SameBatchesAgain /\ prev.appended <= MAX_ARTICLES_IN_ARCHIVE) =>
        /\ Len(existing_articles) = Len(Loaded)
        /\ final_articles = Loaded

\* the second run meets again a record the first run admitted
C5_Witness ==
    /\ SameBatchesAgain
    /\ prev.appended <= MAX_ARTICLES_IN_ARCHIVE
    /\ news_json.lastUpdatedAt = run - 1
    /\ \E c \in Range(Candidates) : c \in Range(Loaded)
    /\ Len(Candidates) >= 2

(* C6: every run eventually reaches save_to_json and rewrites the archive.   *)
(* Violated: the AttributeError of load_existing_articles (C7) and the       *)
(* TypeError of the sort on a None publishedAt end the run before the save.  *)
C6_EveryRunSaves ==
    \A r \in 1..MaxRuns : [](run = r /\ pc = "load" => <>(run = r /\ pc = "done"))

(* C7: on an absent or malformed blob load_existing_articles returns an      *)
(* empty list without raising.                                               *)
(* Violated: a blob that parses to a JSON value that is not an object.       *)
C7_LenientLoad ==
    news_json.kind \in {"absent", "invalid", "array", "object"} =>
        /\ pc # "load_raised"
        /\ pc = "fetch_gnews" => existing_articles = <<>>

(* C8: every record appended from a raw record has the six canonical fields, *)
(* with title "" when the raw record has no title, a placeholder description *)
(* when it has no description, and the provider's fallback source name when  *)
(* it names no source.                                                       *)
(* Violated: no description is ever set, and a missing title becomes None.   *)
CanonicalFields == {"source", "title", "description", "url", "urlToImage", "publishedAt"}

C8_CanonicalShape ==
    Returned =>
        \A r \in Range(existing_articles) \ Range(Loaded) :
            /\ DOMAIN r = CanonicalFields
            /\ r.title # None
            /\ Truthy(r.description)
            /\ Truthy(r.source.name)

C10_SortThenTruncate ==
    Returned =>
        LET all == Loaded \o FirstSeen
            sorted == existing_articles
        IN /\ Len(sorted) = Len(all)
           /\ NewestFirst(sorted)
           /\ \A k \in {all[i].publishedAt : i \in 1..Len(all)} :
                 SelectSeq(sorted, LAMBDA a : a.publishedAt = k)
                   = SelectSeq(all, LAMBDA a : a.publishedAt = k)
           /\ final_articles =
                 SubSeq(sorted, 1, IF Len(sorted) > MAX_ARTICLES_IN_ARCHIVE
                                   THEN MAX_ARTICLES_IN_ARCHIVE ELSE Len(sorted))

\* two records join an archive of MAX_ARTICLES_IN_ARCHIVE - 2: nothing is cut,
\* and a new record stands behind a loaded one of its timestamp
C10_Witness ==
    /\ Returned
    /\ Len(Loaded) = MAX_ARTICLES_IN_ARCHIVE - 2
    /\ Len(final_articles) = MAX_ARTICLES_IN_ARCHIVE
    /\ \E i \in 2..Len(final_articles) :
          /\ final_articles[i] \notin Range(Loaded)
          /\ final_articles[i - 1] \in Range(Loaded)
          /\ final_articles[i - 1].publishedAt = final_articles[i].publishedAt

====
